---- MODULE Spec2Model ----
(***************************************************************************)
(* Model of client-py/casperlabs_client/commands/show_deploys_cmd.py.      *)
(*                                                                         *)
(* The module declares the CLI surface of the "show-deploys" command       *)
(* (NAME, HELP, OPTIONS) and its handler `method`, which is the function   *)
(* body of lines 9-11 decorated with guarded_command (line 8).  The body   *)
(* is modelled one interpreter step at a time: the call of                 *)
(* casperlabs_client.showDeploys, its return or raise, the call of         *)
(* _print_blocks, its return or raise, and the end of the frame.           *)
(*                                                                         *)
(* Python strings that the model has to look into (option names, hashes)   *)
(* are sequences of one-character strings.  Python objects whose identity  *)
(* matters (responses, exceptions) carry an id.                            *)
(***************************************************************************)
EXTENDS Naturals, Sequences, FiniteSets

\* How many invocations of the command one behaviour holds.
MaxInvocations == 2

VARIABLES
    module,        \* the names the imported module binds: NAME, HELP, OPTIONS, method
    pc,            \* where the current invocation stands
    frames,        \* the call stack below the dispatcher, outermost first
    args,          \* the argparse namespace handed to the handler
    response,      \* the local variable `response` of the body
    exc,           \* the exception in flight while the body unwinds
    clientCalls,   \* calls issued on casperlabs_client in this invocation
    clientOutcome, \* what showDeploys did in this invocation
    printCalls,    \* calls issued on _print_blocks in this invocation
    printOutcome,  \* what _print_blocks did in this invocation
    bodyResult,    \* how the body's frame ended: return None, or raise
    trace,         \* the events of this invocation, in order
    exit,          \* what the caller of the body made of the last invocation
    log            \* the finished invocations, oldest first

vars == <<module, pc, frames, args, response, exc, clientCalls, clientOutcome,
          printCalls, printOutcome, bodyResult, trace, exit, log>>

----------------------------------------------------------------------------
\* Values

\* Block hashes the user may type: empty, base16, upper case, not base16,
\* surrounded by blanks.
Hashes == { <<>>, <<"a", "b">>, <<"A", "B">>, <<"z", "z">>, <<" ", "a", " ">> }

NoResponse == [id |-> 0, deploys |-> <<>>]

\* Response objects the client may return; the first is a block with no deploys.
Responses == { [id |-> 1, deploys |-> <<>>],
               [id |-> 2, deploys |-> <<"d1", "d2">>] }

NoException == [id |-> 0, type |-> "none"]

\* Exception objects a collaborator may raise.
Exceptions == { [id |-> 1, type |-> "InternalError"],
                [id |-> 2, type |-> "ConnectionError"] }

Pending == [kind |-> "pending", value |-> NoResponse, exc |-> NoException]

Returned(v) == [kind |-> "return", value |-> v, exc |-> NoException]

Raised(e) == [kind |-> "raise", value |-> NoResponse, exc |-> e]

\* The body returns None: a return that carries no response.
ReturnedNone == [kind |-> "return", value |-> NoResponse, exc |-> NoException]

NoArgs == [hash |-> <<>>]

NoExit == [code |-> 0, stderr |-> NoException, uncaught |-> NoException]

----------------------------------------------------------------------------
\* Module-level declarations

NAME == "show-deploys"

HELP == "View deploys included in a block."

OPTIONS_flag ==
    << [names  |-> << <<"-", "-", "h", "a", "s", "h">> >>,
        kwargs |-> [required |-> TRUE, type |-> "str",
                    help |-> "Value of the block hash, base16 encoded."]] >>

\* OPTIONS = [[("hash",), dict(type=str, help=...)]]
OPTIONS ==
    << [names  |-> << <<"h", "a", "s", "h">> >>,
        kwargs |-> [type |-> "str",
                    help |-> "Value of the block hash, base16 encoded."]] >>

\* What a decorator named guarded_command makes of a function: the function
\* wrapped in a frame that intercepts what the function raises.
guarded_command(fn) == [fn EXCEPT !.wrappers = <<"guarded_command">> \o @]

method_unguarded == [name |-> "method", wrappers |-> <<>>]

\* @guarded_command / def method(casperlabs_client, args): the name `method`
\* is bound to the decorated function.
method == guarded_command([name |-> "method", wrappers |-> <<>>])

----------------------------------------------------------------------------
\* The two calls of the body

Lower(c) == IF c = "A" THEN "a" ELSE IF c = "B" THEN "b" ELSE c

showDeploysCall_full_view(a) ==
    [op |-> "showDeploys", positional |-> <<a.hash>>,
     keywords |-> [full_view |-> TRUE]]

showDeploysCall_lowercased(a) ==
    [op |-> "showDeploys",
     positional |-> << [i \in 1..Len(a.hash) |-> Lower(a.hash[i])] >>,
     keywords |-> [full_view |-> FALSE]]

\* casperlabs_client.showDeploys(args.hash, full_view=False)
showDeploysCall(a) ==
    [op |-> "showDeploys", positional |-> <<a.hash>>,
     keywords |-> [full_view |-> FALSE]]

printBlocksCall_copy(r) ==
    [op |-> "_print_blocks", positional |-> << [r EXCEPT !.id = @ + 10] >>,
     keywords |-> [element_name |-> "deploy"]]

\* _print_blocks(response, element_name="deploy")
printBlocksCall(r) ==
    [op |-> "_print_blocks", positional |-> <<r>>,
     keywords |-> [element_name |-> "deploy"]]

----------------------------------------------------------------------------
\* Initial state: the module has been imported, nothing has been invoked.

Init ==
    /\ module = [NAME |-> NAME, HELP |-> HELP, OPTIONS |-> OPTIONS, method |-> method]
    /\ pc = "idle"
    /\ frames = <<>>
    /\ args = NoArgs
    /\ response = NoResponse
    /\ exc = NoException
    /\ clientCalls = <<>>
    /\ clientOutcome = Pending
    /\ printCalls = <<>>
    /\ printOutcome = Pending
    /\ bodyResult = Pending
    /\ trace = <<>>
    /\ exit = NoExit
    /\ log = <<>>

----------------------------------------------------------------------------
\* Actions

\* The dispatcher calls the handler the module exposes with the parsed
\* arguments: control enters the wrappers of the handler, then the body.
Invoke(h) ==
    /\ pc = "idle"
    /\ Len(log) < MaxInvocations
    /\ pc' = "line10"
    /\ frames' = module.method.wrappers \o <<module.method.name>>
    /\ args' = [hash |-> h]
    /\ response' = NoResponse
    /\ exc' = NoException
    /\ clientCalls' = <<>>
    /\ clientOutcome' = Pending
    /\ printCalls' = <<>>
    /\ printOutcome' = Pending
    /\ bodyResult' = Pending
    /\ trace' = <<>>
    /\ UNCHANGED <<module, exit, log>>

method_line10_call_stateful ==
    /\ pc = "line10"
    /\ pc' = "in_showDeploys"
    /\ clientCalls' = Append(clientCalls,
                             [showDeploysCall(args) EXCEPT !.keywords.full_view = (log # <<>>)])
    /\ trace' = Append(trace, "call showDeploys")
    /\ UNCHANGED <<module, frames, args, response, exc, clientOutcome,
                   printCalls, printOutcome, bodyResult, exit, log>>

\* Line 10, the call: casperlabs_client.showDeploys(args.hash, full_view=False)
method_line10_call ==
    /\ pc = "line10"
    /\ pc' = "in_showDeploys"
    /\ clientCalls' = Append(clientCalls, showDeploysCall(args))
    /\ trace' = Append(trace, "call showDeploys")
    /\ UNCHANGED <<module, frames, args, response, exc, clientOutcome,
                   printCalls, printOutcome, bodyResult, exit, log>>

showDeploys_return_shortcircuit(r) ==
    /\ pc = "in_showDeploys"
    /\ pc' = IF r.deploys = <<>> THEN "end" ELSE "line11"
    /\ clientOutcome' = Returned(r)
    /\ response' = r
    /\ trace' = Append(trace, "return showDeploys")
    /\ UNCHANGED <<module, frames, args, exc, clientCalls, printCalls,
                   printOutcome, bodyResult, exit, log>>

\* Line 10, the assignment: the client returns r and `response` is bound to it.
showDeploys_return(r) ==
    /\ pc = "in_showDeploys"
    /\ pc' = "line11"
    /\ clientOutcome' = Returned(r)
    /\ response' = r
    /\ trace' = Append(trace, "return showDeploys")
    /\ UNCHANGED <<module, frames, args, exc, clientCalls, printCalls,
                   printOutcome, bodyResult, exit, log>>

showDeploys_raise_recover(e) ==
    /\ pc = "in_showDeploys"
    /\ pc' = "line11"
    /\ clientOutcome' = Raised(e)
    /\ trace' = Append(trace, "raise showDeploys")
    /\ UNCHANGED <<module, frames, args, response, exc, clientCalls, printCalls,
                   printOutcome, bodyResult, exit, log>>

\* Line 10 raises: the client raises e; line 10 stands in no try block, so
\* the assignment does not happen and the frame starts to unwind.
showDeploys_raise(e) ==
    /\ pc = "in_showDeploys"
    /\ pc' = "unwind"
    /\ clientOutcome' = Raised(e)
    /\ exc' = e
    /\ trace' = Append(trace, "raise showDeploys")
    /\ UNCHANGED <<module, frames, args, response, clientCalls, printCalls,
                   printOutcome, bodyResult, exit, log>>

\* Line 11, the call: _print_blocks(response, element_name="deploy")
method_line11_call ==
    /\ pc = "line11"
    /\ pc' = "in_print_blocks"
    /\ printCalls' = Append(printCalls, printBlocksCall(response))
    /\ trace' = Append(trace, "call _print_blocks")
    /\ UNCHANGED <<module, frames, args, response, exc, clientCalls,
                   clientOutcome, printOutcome, bodyResult, exit, log>>

\* Line 11 returns: its value is discarded and the body has no further line.
print_blocks_return ==
    /\ pc = "in_print_blocks"
    /\ pc' = "end"
    /\ printOutcome' = ReturnedNone
    /\ trace' = Append(trace, "return _print_blocks")
    /\ UNCHANGED <<module, frames, args, response, exc, clientCalls,
                   clientOutcome, printCalls, bodyResult, exit, log>>

\* Line 11 raises: as for line 10, nothing in the body handles it.
print_blocks_raise(e) ==
    /\ pc = "in_print_blocks"
    /\ pc' = "unwind"
    /\ printOutcome' = Raised(e)
    /\ exc' = e
    /\ trace' = Append(trace, "raise _print_blocks")
    /\ UNCHANGED <<module, frames, args, response, clientCalls,
                   clientOutcome, printCalls, bodyResult, exit, log>>

\* The body falls off its end: a def without a return statement returns None.
method_return ==
    /\ pc = "end"
    /\ pc' = "body_done"
    /\ bodyResult' = ReturnedNone
    /\ frames' = SubSeq(frames, 1, Len(frames) - 1)
    /\ trace' = Append(trace, "return method")
    /\ UNCHANGED <<module, args, response, exc, clientCalls, clientOutcome,
                   printCalls, printOutcome, exit, log>>

method_unwind_swallow ==
    /\ pc = "unwind"
    /\ pc' = "body_done"
    /\ bodyResult' = ReturnedNone
    /\ exc' = NoException
    /\ frames' = SubSeq(frames, 1, Len(frames) - 1)
    /\ trace' = Append(trace, "return method")
    /\ UNCHANGED <<module, args, response, clientCalls, clientOutcome,
                   printCalls, printOutcome, exit, log>>

method_unwind_retry ==
    /\ pc = "unwind"
    /\ pc' = "line10"
    /\ exc' = NoException
    /\ trace' = Append(trace, "retry")
    /\ UNCHANGED <<module, frames, args, response, clientCalls, clientOutcome,
                   printCalls, printOutcome, bodyResult, exit, log>>

\* The body has no try, except, finally or with: the exception in flight
\* leaves the frame as it is and reaches the caller of the body.
method_unwind ==
    /\ pc = "unwind"
    /\ pc' = "body_done"
    /\ bodyResult' = Raised(exc)
    /\ frames' = SubSeq(frames, 1, Len(frames) - 1)
    /\ trace' = Append(trace, "raise method")
    /\ UNCHANGED <<module, args, response, exc, clientCalls, clientOutcome,
                   printCalls, printOutcome, exit, log>>

\* The result of the body reaches its caller.  Under a guarded_command frame
\* an exception is intercepted and turned into error output and a non-zero
\* exit code; without one it reaches the dispatcher uncaught.
Complete ==
    /\ pc = "body_done"
    /\ pc' = "idle"
    /\ exit' = IF bodyResult.kind = "raise"
               THEN IF frames # <<>> /\ frames[Len(frames)] = "guarded_command"
                    THEN [code |-> 1, stderr |-> bodyResult.exc, uncaught |-> NoException]
                    ELSE [code |-> 1, stderr |-> NoException, uncaught |-> bodyResult.exc]
               ELSE NoExit
    /\ frames' = <<>>
    /\ exc' = NoException
    /\ log' = Append(log, [hash |-> args.hash,
                           clientOutcome |-> clientOutcome,
                           printOutcome |-> printOutcome,
                           clientCalls |-> clientCalls,
                           printCalls |-> printCalls,
                           bodyResult |-> bodyResult,
                           trace |-> trace])
    /\ UNCHANGED <<module, args, response, clientCalls, clientOutcome,
                   printCalls, printOutcome, bodyResult, trace>>

\* The steps of an invocation under way.
Step ==
    \/ method_line10_call
    \/ \E r \in Responses : showDeploys_return(r)
    \/ \E e \in Exceptions : showDeploys_raise(e)
    \/ method_line11_call
    \/ print_blocks_return
    \/ \E e \in Exceptions : print_blocks_raise(e)
    \/ method_return
    \/ method_unwind
    \/ Complete

Next ==
    \/ \E h \in Hashes : Invoke(h)
    \/ Step

Spec == Init /\ [][Next]_vars

\* Execution is synchronous and sequential: a started invocation keeps
\* running, and each collaborator call returns or raises.
LiveSpec == Spec /\ WF_vars(Step)

----------------------------------------------------------------------------
\* Properties

\* The positions of the body at which line 10 has issued its call.
PastLine10 == {"in_showDeploys", "line11", "in_print_blocks", "end", "unwind", "body_done"}

ExpectedClientCall(h) ==
    [op |-> "showDeploys", positional |-> <<h>>, keywords |-> [full_view |-> FALSE]]

ExpectedPrintCall(r) ==
    [op |-> "_print_blocks", positional |-> <<r>>, keywords |-> [element_name |-> "deploy"]]

Occurs(ev, tr) == \E i \in 1..Len(tr) : tr[i] = ev

IsFlagName(s) == Len(s) >= 1 /\ s[1] = "-"

\* C1: an invocation with hash h issues exactly one client call, which is
\* showDeploys(h, full_view=False) with no other parameter: none before line
\* 10 has run, that one call from then on and in every finished invocation.
C1_ExactlyOneClientCall ==
    /\ pc = "line10" => clientCalls = <<>>
    /\ pc \in PastLine10 => clientCalls = <<ExpectedClientCall(args.hash)>>
    /\ \A i \in 1..Len(log) : log[i].clientCalls = <<ExpectedClientCall(log[i].hash)>>

C1_Witness ==
    /\ pc = "body_done"
    /\ Len(log) = 1
    /\ clientCalls = <<ExpectedClientCall(args.hash)>>
    /\ args.hash = <<"a", "b">>

\* C2: when the client has returned r, _print_blocks is called exactly once
\* in that invocation, with the very object r and element_name="deploy".
C2_PrintCalledOnceWithResponse ==
    /\ clientOutcome.kind = "return" =>
           IF pc = "line11" THEN printCalls = <<>>
           ELSE printCalls = <<ExpectedPrintCall(clientOutcome.value)>>
    /\ \A i \in 1..Len(log) :
           log[i].clientOutcome.kind = "return" =>
               log[i].printCalls = <<ExpectedPrintCall(log[i].clientOutcome.value)>>

C2_Witness ==
    /\ pc = "end"
    /\ clientOutcome.kind = "return"
    /\ clientOutcome.value.id = 2
    /\ printCalls = <<ExpectedPrintCall(clientOutcome.value)>>

\* C3: when the client raises e, the body neither retries nor recovers: its
\* frame ends by raising the same e to its caller, the guard wrapper.
C3_ClientExceptionPropagates ==
    /\ clientOutcome.kind = "raise" =>
           /\ pc \in {"unwind", "body_done", "idle"}
           /\ Len(clientCalls) = 1
           /\ pc = "unwind" => exc = clientOutcome.exc
           /\ pc \in {"body_done", "idle"} => bodyResult = Raised(clientOutcome.exc)
           /\ pc = "body_done" => frames = <<"guarded_command">>
    /\ \A i \in 1..Len(log) :
           log[i].clientOutcome.kind = "raise" =>
               log[i].bodyResult = Raised(log[i].clientOutcome.exc)

C3_Witness ==
    /\ pc = "body_done"
    /\ clientOutcome.kind = "raise"
    /\ clientOutcome.exc.id = 2
    /\ bodyResult = Raised(clientOutcome.exc)

\* C4 as stated: the handler the module exposes is the unguarded handler,
\* so that the body runs with no guard frame of the module's making.
C4_ExposedHandlerUnguarded ==
    /\ ~Occurs("guarded_command", module.method.wrappers)
    /\ ~Occurs("guarded_command", frames)

\* C4 amended: the module itself applies guarded_command (the decorator of
\* line 8): the handler it exposes is the guarded one, the body always runs
\* beneath the guard frame, which is the caller its result reaches.
C4_GuardAppliedByComponent ==
    /\ module.method = [name |-> "method", wrappers |-> <<"guarded_command">>]
    /\ pc \in {"line10"} \cup (PastLine10 \ {"body_done"}) =>
           frames = <<"guarded_command", "method">>
    /\ pc = "body_done" => frames = <<"guarded_command">>

C4_Witness ==
    /\ pc = "body_done"
    /\ Len(log) = 1
    /\ bodyResult.kind = "raise"
    /\ module.method.wrappers = <<"guarded_command">>
    /\ frames = <<"guarded_command">>

\* C5 as stated: name, help text, and a single option declared as the
\* required flag --hash of type string with its help text.
C5_OptionIsRequiredFlag ==
    /\ module.NAME = "show-deploys"
    /\ module.HELP = "View deploys included in a block."
    /\ Len(module.OPTIONS) = 1
    /\ module.OPTIONS[1].names = << <<"-", "-", "h", "a", "s", "h">> >>
    /\ "required" \in DOMAIN module.OPTIONS[1].kwargs
    /\ module.OPTIONS[1].kwargs.required = TRUE
    /\ module.OPTIONS[1].kwargs.type = "str"
    /\ module.OPTIONS[1].kwargs.help = "Value of the block hash, base16 encoded."

\* C5 amended: name, help text, and a single option declared as the
\* positional argument hash (no leading dash, no required keyword) of type
\* string with its help text.
C5_OptionIsPositional ==
    /\ module.NAME = "show-deploys"
    /\ module.HELP = "View deploys included in a block."
    /\ Len(module.OPTIONS) = 1
    /\ module.OPTIONS[1].names = << <<"h", "a", "s", "h">> >>
    /\ \A i \in 1..Len(module.OPTIONS[1].names) : ~IsFlagName(module.OPTIONS[1].names[i])
    /\ DOMAIN module.OPTIONS[1].kwargs = {"type", "help"}
    /\ module.OPTIONS[1].kwargs.type = "str"
    /\ module.OPTIONS[1].kwargs.help = "Value of the block hash, base16 encoded."

C5_Witness ==
    /\ module.OPTIONS[1].names[1] = <<"h", "a", "s", "h">>
    /\ pc = "line10"
    /\ args.hash = <<"a", "b">>

\* C6: the first argument of every issued client call is the hash the
\* command was given, character for character, whatever the string is.
C6_HashPassedVerbatim ==
    /\ \A i \in 1..Len(clientCalls) : clientCalls[i].positional[1] = args.hash
    /\ \A i \in 1..Len(log) :
           \A k \in 1..Len(log[i].clientCalls) :
               log[i].clientCalls[k].positional[1] = log[i].hash
    /\ pc \in PastLine10 => clientCalls # <<>>

C6_Witness ==
    /\ pc = "in_showDeploys"
    /\ args.hash = <<"z", "z">>
    /\ clientCalls[1].positional[1] = <<"z", "z">>
    /\ Len(log) = 1
    /\ log[1].hash = <<>>
    /\ log[1].clientCalls[1].positional[1] = <<>>

\* C7: when the client returns a response without deploys, the body goes on
\* to line 11 all the same: once past it, _print_blocks has been called
\* exactly once, with that empty response.
C7_EmptyResponseStillPrinted ==
    /\ (clientOutcome.kind = "return" /\ clientOutcome.value.deploys = <<>> /\ pc # "line11") =>
           /\ Len(printCalls) = 1
           /\ printCalls[1].positional = <<clientOutcome.value>>
    /\ \A i \in 1..Len(log) :
           (log[i].clientOutcome.kind = "return" /\ log[i].clientOutcome.value.deploys = <<>>) =>
               /\ Len(log[i].printCalls) = 1
               /\ log[i].printCalls[1].positional = <<log[i].clientOutcome.value>>

C7_Witness ==
    /\ pc = "body_done"
    /\ clientOutcome.kind = "return"
    /\ clientOutcome.value.deploys = <<>>
    /\ Len(printCalls) = 1
    /\ bodyResult.kind = "return"

\* Two finished invocations were given the same: the same hash, and the same
\* outcomes of the two collaborators.
SameInputs(a, b) ==
    /\ a.hash = b.hash
    /\ a.clientOutcome = b.clientOutcome
    /\ a.printOutcome = b.printOutcome

\* C8: what an invocation does is a function of its own hash and of what its
\* collaborators answer: two finished invocations given the same did the
\* same, wherever they stand in the history; and a body that ends normally
\* returns None.
C8_InvocationsIndependent ==
    /\ \A i, j \in 1..Len(log) :
           SameInputs(log[i], log[j]) =>
               /\ log[i].clientCalls = log[j].clientCalls
               /\ log[i].printCalls = log[j].printCalls
               /\ log[i].bodyResult = log[j].bodyResult
               /\ log[i].trace = log[j].trace
    /\ \A i \in 1..Len(log) :
           log[i].bodyResult.kind = "return" => log[i].bodyResult.value = NoResponse
    /\ bodyResult.kind = "return" => bodyResult.value = NoResponse

C8_Witness ==
    /\ Len(log) = 2
    /\ SameInputs(log[1], log[2])
    /\ log[1].bodyResult.kind = "return"
    /\ log[2].clientCalls = log[1].clientCalls
    /\ log[1].hash = <<"A", "B">>

\* C9: _print_blocks is called only after showDeploys has returned, and not
\* at all in an invocation whose client call raised.
C9_PrintOnlyAfterClientReturned ==
    /\ \A i \in 1..Len(trace) :
           trace[i] = "call _print_blocks" =>
               \E j \in 1..(i - 1) : trace[j] = "return showDeploys"
    /\ printCalls # <<>> => clientOutcome.kind = "return"
    /\ clientOutcome.kind = "raise" =>
           printCalls = <<>> /\ ~Occurs("call _print_blocks", trace)
    /\ \A i \in 1..Len(log) :
           log[i].clientOutcome.kind = "raise" =>
               log[i].printCalls = <<>> /\ ~Occurs("call _print_blocks", log[i].trace)

C9_Witness ==
    /\ pc = "idle"
    /\ Len(log) = 2
    /\ log[1].clientOutcome.kind = "raise"
    /\ log[1].printCalls = <<>>
    /\ log[2].trace = <<"call showDeploys", "return showDeploys",
                        "call _print_blocks", "return _print_blocks", "return method">>

\* C10: an invocation never issues a second client call or a second print
\* call, and, its collaborators returning or raising, a started invocation
\* always reaches the end of the body.
C10_SingleShot ==
    /\ [](Len(clientCalls) <= 1 /\ Len(printCalls) <= 1)
    /\ (pc = "line10") ~> (pc = "body_done")

C10_Witness ==
    /\ pc = "body_done"
    /\ Len(clientCalls) = 1
    /\ Len(printCalls) = 1
    /\ printOutcome.kind = "raise"

====
